---- MODULE Spec2Model ----
(***************************************************************************)
(* SleepGuard daemon (sleepguard_daemon.py): the keystroke window, the     *)
(* fatigue score, the notification gate of monitor_loop, the snapshot      *)
(* save and the shutdown path, as a state machine of two threads (the      *)
(* keyboard listener thread running on_press and the main thread running   *)
(* start / monitor_loop) that share one lock.                              *)
(*                                                                         *)
(* Time is the wall clock in whole seconds since a midnight.  The float    *)
(* arithmetic of the duration score is modelled by its truncation: the     *)
(* other two sub-scores are integers, so int(time + duration + rate) is    *)
(* time + rate + floor(duration).                                          *)
(***************************************************************************)
EXTENDS Integers, Sequences, FiniteSets, TLC

VARIABLES
    config,                   \* self.config (loaded once)
    now,                      \* datetime.now(), seconds since a midnight
    session_start,            \* self.session_start
    keystroke_count,          \* self.keystroke_count
    keystroke_history,        \* self.keystroke_history (timestamps)
    fatigue_score,            \* self.fatigue_score
    last_notification_level,  \* self.last_notification_level
    lock,                     \* self.lock: "free", "main" or "listener"
    running,                  \* self.running
    listening,                \* the pynput listener delivers events
    mpc,                      \* position of the main thread
    kpc,                      \* position of the listener thread in on_press
    current_time,             \* on_press: local current_time
    current_score,            \* monitor_loop: local current_score
    last_save_time,           \* monitor_loop: local last_save_time
    snapshot,                 \* save_stats: local stats dict, NoStats if none
    stats_file,               \* contents of stats.json
    alerts,                   \* send_notification calls made in this cycle
    history_ids,              \* history: event number of each window entry
    completed,                \* history: number of on_press calls returned
    fired_since_reset,        \* history: levels fired since the last reset
    final_saves,              \* history: save_stats calls made by the handler
    ui_view                   \* the screen the dashboard (sleepguard_ui) shows

vars == <<config, now, session_start, keystroke_count, keystroke_history,
          fatigue_score, last_notification_level, lock, running, listening,
          mpc, kpc, current_time, current_score, last_save_time, snapshot,
          stats_file, alerts, history_ids, completed, fired_since_reset,
          final_saves, ui_view>>

(***************************************************************************)
(* Program constants.                                                      *)
(***************************************************************************)
SecondsPerHour == 3600
HoursPerDay == 24
MorningHour == 6
PointsPerHour == 7
MaxTimeScore == 30
MaxDurationScore == 40
GraceHours == 1
MaxScore == 100
LowRate == 30
MidRate == 60
HighRate == 90
LowRateScore == 30
MidRateScore == 20
HighRateScore == 10
IdleRateScore == 25
ResetBelow == 30
CriticalTier == 90
HighTier == 60
WarningTier == 30
SleepSeconds == 5
SecondsPerMinute == 60

(***************************************************************************)
(* Bounds of the model.                                                    *)
(***************************************************************************)
MaxKeys == 2          \* keystrokes delivered in a run
MaxHours == 2         \* whole hours the clock advances in a run
MaxMinutes == 1       \* minutes the clock advances within an hour
MaxRate == 91         \* largest window count given to the scorer
MaxHalfHours == 10    \* longest session given to the scorer, in half hours

Min(a, b) == IF a < b THEN a ELSE b

DefaultConfig ==
    [bedtime_hour |-> 23, max_session_hours |-> 4,
     notification_levels |-> {30, 60, 90},
     keystroke_window_seconds |-> 60, save_interval_seconds |-> 60]

NoStats == [kind |-> "none"]

(***************************************************************************)
(* calculate_fatigue_score                                                 *)
(***************************************************************************)
CurrentHour == (now \div SecondsPerHour) % HoursPerDay

\* time_score without the midnight rollover
time_score_no_rollover(current_hour, bedtime) ==
    IF current_hour >= bedtime \/ current_hour < MorningHour
    THEN Min(MaxTimeScore, (current_hour - bedtime) * PointsPerHour)
    ELSE 0

\* time_score that counts the bedtime hour itself as one hour past bedtime
time_score_from_one(current_hour, bedtime) ==
    IF current_hour >= bedtime \/ current_hour < MorningHour
    THEN LET hours_past_bedtime ==
                 IF current_hour >= bedtime
                 THEN current_hour - bedtime + 1
                 ELSE (HoursPerDay - bedtime) + current_hour + 1
         IN  Min(MaxTimeScore, hours_past_bedtime * PointsPerHour)
    ELSE 0

\* time_score without the clamp at 30
time_score_unclamped(current_hour, bedtime) ==
    IF current_hour >= bedtime \/ current_hour < MorningHour
    THEN LET hours_past_bedtime ==
                 IF current_hour >= bedtime
                 THEN current_hour - bedtime
                 ELSE (HoursPerDay - bedtime) + current_hour
         IN  hours_past_bedtime * PointsPerHour
    ELSE 0

\* time_score that counts the hours after midnight from midnight
time_score_from_midnight(current_hour, bedtime) ==
    IF current_hour >= bedtime \/ current_hour < MorningHour
    THEN LET hours_past_bedtime ==
                 IF current_hour >= bedtime
                 THEN current_hour - bedtime
                 ELSE current_hour
         IN  Min(MaxTimeScore, hours_past_bedtime * PointsPerHour)
    ELSE 0

time_score(current_hour, bedtime) ==
    IF current_hour >= bedtime \/ current_hour < MorningHour
    THEN LET hours_past_bedtime ==
                 IF current_hour >= bedtime
                 THEN current_hour - bedtime
                 ELSE (HoursPerDay - bedtime) + current_hour
         IN  Min(MaxTimeScore, hours_past_bedtime * PointsPerHour)
    ELSE 0

\* floor of min(40, (seconds / 3600 / max_session) * 40), 0 within the grace hour
duration_score(seconds, max_session) ==
    IF seconds > GraceHours * SecondsPerHour
    THEN Min(MaxDurationScore,
             (seconds * MaxDurationScore) \div (SecondsPerHour * max_session))
    ELSE 0

\* keystroke_rate_score with inclusive cut-offs
keystroke_rate_score_inclusive(current_rate) ==
    IF current_rate > 0
    THEN IF current_rate <= LowRate THEN LowRateScore
         ELSE IF current_rate <= MidRate THEN MidRateScore
         ELSE IF current_rate <= HighRate THEN HighRateScore
         ELSE 0
    ELSE IdleRateScore

keystroke_rate_score(current_rate) ==
    IF current_rate > 0
    THEN IF current_rate < LowRate THEN LowRateScore
         ELSE IF current_rate < MidRate THEN MidRateScore
         ELSE IF current_rate < HighRate THEN HighRateScore
         ELSE 0
    ELSE IdleRateScore

total_score(current_hour, seconds, current_rate, cfg) ==
    Min(MaxScore,
        time_score(current_hour, cfg.bedtime_hour)
        + duration_score(seconds, cfg.max_session_hours)
        + keystroke_rate_score(current_rate))

calculate_fatigue_score ==
    total_score(CurrentHour, now - session_start, Len(keystroke_history), config)

(***************************************************************************)
(* Configurations and start times explored.                                *)
(***************************************************************************)
AltConfig ==
    [bedtime_hour |-> 22, max_session_hours |-> 1,
     notification_levels |-> {20, 60},
     keystroke_window_seconds |-> 120, save_interval_seconds |-> 120]

Configs == {DefaultConfig, AltConfig}

StartTimes == {5 * SecondsPerHour, 20 * SecondsPerHour}

Init ==
    /\ config \in Configs
    /\ now \in StartTimes
    /\ session_start = now
    /\ keystroke_count = 0
    /\ keystroke_history = <<>>
    /\ fatigue_score = 0
    /\ last_notification_level = 0
    /\ lock = "free"
    /\ running = TRUE
    /\ listening = FALSE
    /\ mpc = "start"
    /\ kpc = "idle"
    /\ current_time = 0
    /\ current_score = 0
    /\ last_save_time = 0
    /\ snapshot = NoStats
    /\ stats_file = NoStats
    /\ alerts = <<>>
    /\ history_ids = <<>>
    /\ completed = 0
    /\ fired_since_reset = {}
    /\ final_saves = 0
    /\ ui_view = "starting"

(***************************************************************************)
(* Listener thread: on_press                                               *)
(***************************************************************************)
listenerVars == <<keystroke_count, keystroke_history, kpc, current_time,
                  history_ids, completed>>
mainVars == <<fatigue_score, last_notification_level, running, listening,
              mpc, current_score, last_save_time, snapshot, stats_file,
              alerts, fired_since_reset, final_saves>>

\* the listener delivers a key event: on_press is entered
KeyPress ==
    /\ kpc = "idle"
    /\ listening
    /\ keystroke_count < MaxKeys
    /\ kpc' = "lock"
    /\ UNCHANGED <<config, now, session_start, lock, mainVars,
                   keystroke_count, keystroke_history, current_time,
                   history_ids, completed, ui_view>>

\* with self.lock:
OnPressAcquire ==
    /\ kpc = "lock"
    /\ lock = "free"
    /\ lock' = "listener"
    /\ kpc' = "count"
    /\ UNCHANGED <<config, now, session_start, mainVars, keystroke_count,
                   keystroke_history, current_time, history_ids, completed,
                   ui_view>>

\* self.keystroke_count += 1; current_time = datetime.now()
OnPressCount ==
    /\ kpc = "count"
    /\ keystroke_count' = keystroke_count + 1
    /\ current_time' = now
    /\ kpc' = "record"
    /\ UNCHANGED <<config, now, session_start, lock, mainVars,
                   keystroke_history, history_ids, completed, ui_view>>

\* Recent keeping a timestamp equal to the cutoff as well
RecentInclusive(history, cutoff_time) ==
    {i \in DOMAIN history : history[i] >= cutoff_time}

\* [t for t in self.keystroke_history if t > cutoff_time]: positions kept
Recent(history, cutoff_time) ==
    {i \in DOMAIN history : history[i] > cutoff_time}

\* the subsequence of s at the positions in keep, in order
RECURSIVE Filter(_, _, _)
Filter(s, keep, i) ==
    IF i > Len(s) THEN <<>>
    ELSE IF i \in keep THEN <<s[i]>> \o Filter(s, keep, i + 1)
    ELSE Filter(s, keep, i + 1)

\* OnPressRecord pruning the old list and losing the new timestamp
OnPressRecordDropsNew ==
    /\ kpc = "record"
    /\ LET cutoff_time == current_time - config.keystroke_window_seconds
           keep == Recent(keystroke_history, cutoff_time)
       IN  /\ keystroke_history' = Filter(keystroke_history, keep, 1)
           /\ history_ids' = Filter(history_ids, keep, 1)
    /\ lock' = "free"
    /\ completed' = completed + 1
    /\ current_time' = 0
    /\ kpc' = "idle"
    /\ UNCHANGED <<config, now, session_start, mainVars, keystroke_count, ui_view>>

\* append, prune, and leave the with block
OnPressRecord ==
    /\ kpc = "record"
    /\ LET appended == Append(keystroke_history, current_time)
           cutoff_time == current_time - config.keystroke_window_seconds
           keep == Recent(appended, cutoff_time)
       IN  /\ keystroke_history' = Filter(appended, keep, 1)
           /\ history_ids' = Filter(Append(history_ids, keystroke_count), keep, 1)
    /\ lock' = "free"
    /\ completed' = completed + 1
    /\ current_time' = 0
    /\ kpc' = "idle"
    /\ UNCHANGED <<config, now, session_start, mainVars, keystroke_count, ui_view>>

Listener == KeyPress \/ OnPressAcquire \/ OnPressCount \/ OnPressRecord

(***************************************************************************)
(* Main thread: start, monitor_loop, send_notification, save_stats         *)
(***************************************************************************)
sharedVars == <<config, now, session_start, listenerVars>>

\* start: listener.start()
StartListener ==
    /\ mpc = "start"
    /\ listening' = TRUE
    /\ mpc' = "enter"
    /\ UNCHANGED <<sharedVars, lock, fatigue_score, last_notification_level,
                   running, current_score, last_save_time, snapshot,
                   stats_file, alerts, fired_since_reset, final_saves,
                   ui_view>>

\* monitor_loop: last_save_time = datetime.now()
EnterLoop ==
    /\ mpc = "enter"
    /\ last_save_time' = now
    /\ mpc' = "loop"
    /\ UNCHANGED <<sharedVars, lock, fatigue_score, last_notification_level,
                   running, listening, current_score, snapshot,
                   stats_file, alerts, fired_since_reset, final_saves,
                   ui_view>>

\* while self.running: a new evaluation cycle begins
LoopTest ==
    /\ mpc = "loop"
    /\ running
    /\ mpc' = "score_lock"
    /\ alerts' = <<>>
    /\ UNCHANGED <<sharedVars, lock, fatigue_score, last_notification_level,
                   running, listening, current_score, last_save_time,
                   snapshot, stats_file, fired_since_reset,
                   final_saves, ui_view>>

\* with self.lock: (monitor_loop)
ScoreAcquire ==
    /\ mpc = "score_lock"
    /\ lock = "free"
    /\ lock' = "main"
    /\ mpc' = "score"
    /\ UNCHANGED <<sharedVars, fatigue_score, last_notification_level,
                   running, listening, current_score, last_save_time,
                   snapshot, stats_file, alerts,
                   fired_since_reset, final_saves, ui_view>>

\* self.fatigue_score = self.calculate_fatigue_score(); current_score = ...
Score ==
    /\ mpc = "score"
    /\ fatigue_score' = calculate_fatigue_score
    /\ current_score' = fatigue_score'
    /\ lock' = "free"
    /\ mpc' = "notify"
    /\ UNCHANGED <<sharedVars, last_notification_level, running, listening,
                   last_save_time, snapshot, stats_file, alerts,
                   fired_since_reset, final_saves, ui_view>>

\* send_notification: the message chosen for a fatigue level
Tier(fatigue_level) ==
    IF fatigue_level >= CriticalTier THEN "critical"
    ELSE IF fatigue_level >= HighTier THEN "high"
    ELSE IF fatigue_level >= WarningTier THEN "warning"
    ELSE "none"

Lowest(S) == CHOOSE x \in S : \A y \in S : x <= y

\* sorted in descending order
RECURSIVE sorted_descending(_)
sorted_descending(S) ==
    IF S = {} THEN <<>>
    ELSE LET highest == CHOOSE x \in S : \A y \in S : y <= x
         IN  <<highest>> \o sorted_descending(S \ {highest})

\* sorted(notification_levels)
RECURSIVE sorted(_)
sorted(S) == IF S = {} THEN <<>> ELSE <<Lowest(S)>> \o sorted(S \ {Lowest(S)})

\* NotifyLoop accepting a level equal to the last notification level
RECURSIVE NotifyLoopAtMost(_, _, _, _)
NotifyLoopAtMost(levels, i, score, st) ==
    IF i > Len(levels) THEN st
    ELSE IF score >= levels[i] /\ st.last <= levels[i]
    THEN [last |-> levels[i], fired |-> Append(st.fired, levels[i])]
    ELSE NotifyLoopAtMost(levels, i + 1, score, st)

\* NotifyLoop without the break
RECURSIVE NotifyLoopNoBreak(_, _, _, _)
NotifyLoopNoBreak(levels, i, score, st) ==
    IF i > Len(levels) THEN st
    ELSE IF score >= levels[i] /\ st.last < levels[i]
    THEN NotifyLoopNoBreak(levels, i + 1, score,
             [last |-> levels[i], fired |-> Append(st.fired, levels[i])])
    ELSE NotifyLoopNoBreak(levels, i + 1, score, st)

\* for level in sorted(notification_levels): from position i on, with
\* st.last the last notification level and st.fired the levels notified
RECURSIVE NotifyLoop(_, _, _, _)
NotifyLoop(levels, i, score, st) ==
    IF i > Len(levels) THEN st
    ELSE IF score >= levels[i] /\ st.last < levels[i]
    THEN [last |-> levels[i], fired |-> Append(st.fired, levels[i])]
    ELSE NotifyLoop(levels, i + 1, score, st)

\* NotificationCheck in which a failure of the sink is not caught by
\* send_notification: the level is not recorded, and the rest of the cycle
\* is skipped
NotificationCheckSinkRaises ==
    /\ mpc = "notify"
    /\ LET st == NotifyLoop(sorted(config.notification_levels), 1,
                            current_score,
                            [last |-> last_notification_level, fired |-> <<>>])
       IN  \E sink_ok \in (IF st.fired = <<>> THEN {TRUE} ELSE BOOLEAN) :
              LET raised == ~sink_ok /\ Tier(current_score) # "none"
              IN  /\ alerts' = [i \in DOMAIN st.fired |->
                                  [level |-> st.fired[i],
                                   score |-> current_score,
                                   tier |-> Tier(current_score),
                                   sink |-> IF Tier(current_score) = "none"
                                            THEN "not_called"
                                            ELSE IF sink_ok THEN "sent"
                                            ELSE "failed"]]
                  /\ last_notification_level' =
                        IF raised THEN last_notification_level ELSE st.last
                  /\ fired_since_reset' =
                        fired_since_reset
                           \cup {st.fired[i] : i \in DOMAIN st.fired}
                  /\ mpc' = IF raised THEN "sleep" ELSE "reset"
    /\ UNCHANGED <<sharedVars, lock, fatigue_score, running, listening,
                   current_score, last_save_time, snapshot,
                   stats_file, final_saves, ui_view>>

\* NotificationCheck choosing the message from the level that fired
NotificationCheckByLevel ==
    /\ mpc = "notify"
    /\ LET st == NotifyLoop(sorted(config.notification_levels), 1,
                            current_score,
                            [last |-> last_notification_level, fired |-> <<>>])
       IN  /\ \E sink_ok \in (IF st.fired = <<>> THEN {TRUE} ELSE BOOLEAN) :
                 alerts' = [i \in DOMAIN st.fired |->
                              [level |-> st.fired[i],
                               score |-> current_score,
                               tier |-> Tier(st.fired[i]),
                               sink |-> IF Tier(st.fired[i]) = "none"
                                        THEN "not_called"
                                        ELSE IF sink_ok THEN "sent"
                                        ELSE "failed"]]
           /\ last_notification_level' = st.last
           /\ fired_since_reset' =
                 fired_since_reset \cup {st.fired[i] : i \in DOMAIN st.fired}
    /\ mpc' = "reset"
    /\ UNCHANGED <<sharedVars, lock, fatigue_score, running, listening,
                   current_score, last_save_time, snapshot,
                   stats_file, final_saves, ui_view>>

\* the notification check of one cycle; send_notification returns without
\* calling the sink below 30, and catches the failure of the sink
NotificationCheck ==
    /\ mpc = "notify"
    /\ LET st == NotifyLoop(sorted(config.notification_levels), 1,
                            current_score,
                            [last |-> last_notification_level, fired |-> <<>>])
       IN  /\ \E sink_ok \in (IF st.fired = <<>> THEN {TRUE} ELSE BOOLEAN) :
                 alerts' = [i \in DOMAIN st.fired |->
                              [level |-> st.fired[i],
                               score |-> current_score,
                               tier |-> Tier(current_score),
                               sink |-> IF Tier(current_score) = "none"
                                        THEN "not_called"
                                        ELSE IF sink_ok THEN "sent"
                                        ELSE "failed"]]
           /\ last_notification_level' = st.last
           /\ fired_since_reset' =
                 fired_since_reset \cup {st.fired[i] : i \in DOMAIN st.fired}
    /\ mpc' = "reset"
    /\ UNCHANGED <<sharedVars, lock, fatigue_score, running, listening,
                   current_score, last_save_time, snapshot,
                   stats_file, final_saves, ui_view>>

\* ResetCheck as an elif of the notification check
ResetCheckUnlessFired ==
    /\ mpc = "reset"
    /\ IF current_score < ResetBelow /\ alerts = <<>>
       THEN /\ last_notification_level' = 0
            /\ fired_since_reset' = {}
       ELSE UNCHANGED <<last_notification_level, fired_since_reset>>
    /\ mpc' = "save_check"
    /\ UNCHANGED <<sharedVars, lock, fatigue_score, running, listening,
                   current_score, last_save_time, snapshot, stats_file,
                   alerts, final_saves, ui_view>>

\* ResetCheck resetting when the score is below the last notification level
ResetCheckBelowLevel ==
    /\ mpc = "reset"
    /\ IF current_score < last_notification_level
       THEN /\ last_notification_level' = 0
            /\ fired_since_reset' = {}
       ELSE UNCHANGED <<last_notification_level, fired_since_reset>>
    /\ mpc' = "save_check"
    /\ UNCHANGED <<sharedVars, lock, fatigue_score, running, listening,
                   current_score, last_save_time, snapshot, stats_file,
                   alerts, final_saves, ui_view>>

\* if current_score < 30: self.last_notification_level = 0
ResetCheck ==
    /\ mpc = "reset"
    /\ IF current_score < ResetBelow
       THEN /\ last_notification_level' = 0
            /\ fired_since_reset' = {}
       ELSE UNCHANGED <<last_notification_level, fired_since_reset>>
    /\ mpc' = "save_check"
    /\ UNCHANGED <<sharedVars, lock, fatigue_score, running, listening,
                   current_score, last_save_time, snapshot,
                   stats_file, alerts, final_saves, ui_view>>

\* SaveDue that wants more than the interval to have passed
SaveDueStrict == now - last_save_time > config.save_interval_seconds

\* if (datetime.now() - last_save_time).total_seconds() >= save_interval
SaveDue == now - last_save_time >= config.save_interval_seconds

SaveCheck ==
    /\ mpc = "save_check"
    /\ IF SaveDue
       THEN mpc' = "save_lock"
       ELSE mpc' = "sleep"
    /\ UNCHANGED <<sharedVars, lock, fatigue_score, last_notification_level,
                   running, listening, current_score, last_save_time,
                   snapshot, stats_file, alerts, fired_since_reset,
                   final_saves, ui_view>>

\* SaveAcquire that does not take the lock
SaveAcquireNoLock ==
    /\ mpc = "save_lock"
    /\ mpc' = "save_build"
    /\ UNCHANGED <<sharedVars, lock, fatigue_score, last_notification_level,
                   running, listening, current_score, last_save_time,
                   snapshot, stats_file, alerts, fired_since_reset,
                   final_saves, ui_view>>

\* save_stats: with self.lock:
SaveAcquire ==
    /\ mpc = "save_lock"
    /\ lock = "free"
    /\ lock' = "main"
    /\ mpc' = "save_build"
    /\ UNCHANGED <<sharedVars, fatigue_score, last_notification_level,
                   running, listening, current_score, last_save_time,
                   snapshot, stats_file, alerts,
                   fired_since_reset, final_saves, ui_view>>

get_keystroke_rate == Len(keystroke_history)

Stats ==
    [kind |-> "stats",
     timestamp |-> now,
     session_duration_seconds |-> now - session_start,
     total_keystrokes |-> keystroke_count,
     current_keystroke_rate |-> get_keystroke_rate,
     fatigue_score |-> fatigue_score,
     current_hour |-> CurrentHour]

\* stats = {...}: psutil may raise, which save_stats catches after the lock
\* is released, so that nothing is written
SaveBuild ==
    /\ mpc = "save_build"
    /\ \E metrics_ok \in BOOLEAN :
          IF metrics_ok
          THEN /\ snapshot' = Stats
               /\ mpc' = "save_write"
          ELSE /\ snapshot' = NoStats
               /\ mpc' = "save_return"
    /\ lock' = "free"
    /\ UNCHANGED <<sharedVars, fatigue_score, last_notification_level,
                   running, listening, current_score, last_save_time,
                   stats_file, alerts, fired_since_reset, final_saves,
                   ui_view>>

Truncated == [kind |-> "truncated"]

\* SaveWrite whose failure is not caught and ends the main thread
SaveWriteUncaught ==
    /\ mpc = "save_write"
    /\ \E outcome \in {"written", "open_failed", "dump_failed"} :
          /\ stats_file' = CASE outcome = "written" -> snapshot
                             [] outcome = "open_failed" -> stats_file
                             [] outcome = "dump_failed" -> Truncated
          /\ mpc' = IF outcome = "written" THEN "save_return" ELSE "done"
    /\ snapshot' = NoStats
    /\ UNCHANGED <<sharedVars, lock, fatigue_score, last_notification_level,
                   running, listening, current_score, last_save_time,
                   alerts, fired_since_reset, final_saves, ui_view>>

\* with open(self.stats_path, 'w') as f: json.dump(stats, f, indent=4)
SaveWrite ==
    /\ mpc = "save_write"
    /\ \E outcome \in {"written", "open_failed", "dump_failed"} :
          stats_file' = CASE outcome = "written" -> snapshot
                          [] outcome = "open_failed" -> stats_file
                          [] outcome = "dump_failed" -> Truncated
    /\ snapshot' = NoStats
    /\ mpc' = "save_return"
    /\ UNCHANGED <<sharedVars, lock, fatigue_score, last_notification_level,
                   running, listening, current_score, last_save_time,
                   alerts, fired_since_reset, final_saves, ui_view>>

\* save_stats returns: to monitor_loop (last_save_time = datetime.now();
\* time.sleep(5)) or to the handler of start (the daemon has stopped)
SaveReturn ==
    /\ mpc = "save_return"
    /\ IF running
       THEN /\ last_save_time' = now
            /\ mpc' = "sleep"
       ELSE /\ mpc' = "done"
            /\ UNCHANGED last_save_time
    /\ UNCHANGED <<sharedVars, lock, fatigue_score, last_notification_level,
                   running, listening, current_score, snapshot, stats_file,
                   alerts, fired_since_reset, final_saves, ui_view>>

\* the time that passes while the main thread sleeps
Advance == {SecondsPerMinute, SecondsPerHour}

\* time.sleep(5) returns: at least 5 seconds have passed
Wake ==
    /\ mpc = "sleep"
    /\ \E d \in Advance :
          /\ d >= SleepSeconds
          /\ IF d = SecondsPerHour
             THEN (now + d - session_start) \div SecondsPerHour <= MaxHours
             ELSE ((now - session_start) % SecondsPerHour) + d
                      <= MaxMinutes * SecondsPerMinute
          /\ now' = now + d
    /\ mpc' = "loop"
    /\ UNCHANGED <<config, session_start, listenerVars, lock, fatigue_score,
                   last_notification_level, running, listening,
                   current_score, last_save_time, snapshot, stats_file,
                   alerts, fired_since_reset, final_saves, ui_view>>

\* positions of the main thread inside try: self.monitor_loop()
InMonitorLoop ==
    /\ running
    /\ mpc \in {"enter", "loop", "score_lock", "score", "notify", "reset",
                "save_check", "save_lock", "save_build", "save_write",
                "save_return", "sleep"}

\* Interrupt that leaves the lock held by the main thread
InterruptKeepsLock ==
    /\ InMonitorLoop
    /\ mpc' = "interrupted"
    /\ snapshot' = NoStats
    /\ UNCHANGED <<sharedVars, lock, fatigue_score, last_notification_level,
                   running, listening, current_score, last_save_time,
                   stats_file, alerts, fired_since_reset, final_saves,
                   ui_view>>

\* KeyboardInterrupt is raised in the main thread; a with block it leaves
\* releases the lock
Interrupt ==
    /\ InMonitorLoop
    /\ mpc' = "interrupted"
    /\ lock' = IF lock = "main" THEN "free" ELSE lock
    /\ snapshot' = NoStats
    /\ UNCHANGED <<sharedVars, fatigue_score, last_notification_level,
                   running, listening, current_score, last_save_time,
                   stats_file, alerts, fired_since_reset, final_saves,
                   ui_view>>

\* except KeyboardInterrupt: self.running = False
HandlerStop ==
    /\ mpc = "interrupted"
    /\ running' = FALSE
    /\ mpc' = "stop_listener"
    /\ UNCHANGED <<sharedVars, lock, fatigue_score, last_notification_level,
                   listening, current_score, last_save_time, snapshot,
                   stats_file, alerts, fired_since_reset, final_saves,
                   ui_view>>

\* HandlerStopListener saving only when the save interval has elapsed
HandlerStopListenerIfDue ==
    /\ mpc = "stop_listener"
    /\ listening' = FALSE
    /\ IF SaveDue
       THEN /\ final_saves' = final_saves + 1
            /\ mpc' = "save_lock"
       ELSE /\ mpc' = "done"
            /\ UNCHANGED final_saves
    /\ UNCHANGED <<sharedVars, lock, fatigue_score, last_notification_level,
                   running, current_score, last_save_time, snapshot,
                   stats_file, alerts, fired_since_reset, ui_view>>

\* listener.stop(); self.save_stats()
HandlerStopListener ==
    /\ mpc = "stop_listener"
    /\ listening' = FALSE
    /\ final_saves' = final_saves + 1
    /\ mpc' = "save_lock"
    /\ UNCHANGED <<sharedVars, lock, fatigue_score, last_notification_level,
                   running, current_score, last_save_time, snapshot,
                   stats_file, alerts, fired_since_reset, ui_view>>

MainThread ==
    \/ StartListener \/ EnterLoop \/ LoopTest \/ ScoreAcquire \/ Score
    \/ NotificationCheck \/ ResetCheck \/ SaveCheck \/ SaveAcquire
    \/ SaveBuild \/ SaveWrite \/ SaveReturn \/ Wake
    \/ Interrupt \/ HandlerStop \/ HandlerStopListener

Next == Listener \/ MainThread

Spec == Init /\ [][Next]_vars

\* the threads are scheduled: each runs on while it can; key events and the
\* stop signal come from outside and need not happen
MainProgress ==
    \/ StartListener \/ EnterLoop \/ LoopTest \/ ScoreAcquire \/ Score
    \/ NotificationCheck \/ ResetCheck \/ SaveCheck \/ SaveAcquire
    \/ SaveBuild \/ SaveWrite \/ SaveReturn \/ Wake
    \/ HandlerStop \/ HandlerStopListener

ListenerProgress == OnPressAcquire \/ OnPressCount \/ OnPressRecord

\* the daemon started in the evening
InitEvening == Init /\ now = 20 * SecondsPerHour

FairSpec ==
    /\ InitEvening
    /\ [][Next]_vars
    /\ WF_vars(MainProgress)
    /\ WF_vars(ListenerProgress)

\* the daemon started in the evening with the default config
InitLock == InitEvening /\ config = DefaultConfig

FairLockSpec ==
    /\ InitLock
    /\ [][Next]_vars
    /\ WF_vars(MainProgress)
    /\ WF_vars(ListenerProgress)

(***************************************************************************)
(* The scorer on its own: the daemon is about to evaluate, in any hour,    *)
(* with any bedtime, session length and window count of the sets below.    *)
(***************************************************************************)
Hours == 0 .. (HoursPerDay - 1)

MaxSessions == {1, 4, 24}

Durations ==
    {h * (SecondsPerHour \div 2) : h \in 0 .. MaxHalfHours}
        \cup {SecondsPerHour + 1}

Rates == {0, 1, LowRate - 1, LowRate, MidRate - 1, MidRate, HighRate - 1,
          HighRate, MaxRate}

InitScore ==
    /\ config \in {[DefaultConfig EXCEPT !.bedtime_hour = b,
                                         !.max_session_hours = m] :
                      b \in Hours, m \in MaxSessions}
    /\ \E h \in Hours, d \in Durations :
          /\ now = (HoursPerDay + h) * SecondsPerHour
          /\ session_start = now - d
    /\ \E r \in Rates : keystroke_history = [i \in 1 .. r |-> now]
    /\ history_ids = [i \in 1 .. Len(keystroke_history) |-> i]
    /\ keystroke_count = Len(keystroke_history)
    /\ completed = keystroke_count
    /\ fatigue_score = 0
    /\ last_notification_level = 0
    /\ lock = "main"
    /\ running = TRUE
    /\ listening = TRUE
    /\ mpc = "score"
    /\ kpc = "idle"
    /\ current_time = 0
    /\ current_score = 0
    /\ last_save_time = session_start
    /\ snapshot = NoStats
    /\ stats_file = NoStats
    /\ alerts = <<>>
    /\ fired_since_reset = {}
    /\ final_saves = 0
    /\ ui_view = "starting"

SpecScore == InitScore /\ [][Score]_vars

\* one evaluation cycle of monitor_loop, from the scorer to the reset check
NextEvaluation == Score \/ NotificationCheck \/ ResetCheck

SpecCycle == InitScore /\ [][NextEvaluation]_vars

(***************************************************************************)
(* The notification gate on its own: the evaluation cycles of              *)
(* monitor_loop, fed any sequence of the scores below.                     *)
(***************************************************************************)
Scores == {0, 20, 25, 29, 30, 45, 57, 59, 60, 62, 89, 90, MaxScore}

LevelSets == {{30, 60, 90}, {20, 60}, {50}, {10, 25, 95}}

InitGate ==
    /\ config \in {[DefaultConfig EXCEPT !.notification_levels = l] :
                      l \in LevelSets}
    /\ now \in StartTimes
    /\ session_start = now
    /\ keystroke_count = 0
    /\ keystroke_history = <<>>
    /\ fatigue_score = 0
    /\ last_notification_level = 0
    /\ lock = "free"
    /\ running = TRUE
    /\ listening = TRUE
    /\ mpc = "loop"
    /\ kpc = "idle"
    /\ current_time = 0
    /\ current_score = 0
    /\ last_save_time = now
    /\ snapshot = NoStats
    /\ stats_file = NoStats
    /\ alerts = <<>>
    /\ history_ids = <<>>
    /\ completed = 0
    /\ fired_since_reset = {}
    /\ final_saves = 0
    /\ ui_view = "starting"

\* the score of this cycle, in place of calculate_fatigue_score
ScoreInput ==
    /\ mpc = "score_lock"
    /\ \E s \in Scores :
          /\ fatigue_score' = s
          /\ current_score' = s
    /\ mpc' = "notify"
    /\ UNCHANGED <<sharedVars, lock, last_notification_level, running,
                   listening, last_save_time, snapshot, stats_file, alerts,
                   fired_since_reset, final_saves, ui_view>>

\* the rest of the cycle (no save is due, the sleep returns)
NextCycle ==
    /\ mpc = "save_check"
    /\ mpc' = "loop"
    /\ UNCHANGED <<sharedVars, lock, fatigue_score, last_notification_level,
                   running, listening, current_score, last_save_time,
                   snapshot, stats_file, alerts, fired_since_reset,
                   final_saves, ui_view>>

NextGate ==
    LoopTest \/ ScoreInput \/ NotificationCheck \/ ResetCheck \/ NextCycle

SpecGate == InitGate /\ [][NextGate]_vars

(***************************************************************************)
(* The notification gate under a score that stays: the first cycle gets   *)
(* any score from 30 up, the later cycles the same score for as long as   *)
(* a level remains to fire for it, and after that any score from 30 up    *)
(* that is below every level above the last one.                          *)
(***************************************************************************)
ScoreHeld ==
    /\ mpc = "score_lock"
    /\ \E s \in {x \in Scores : x >= ResetBelow} :
          /\ IF current_score = 0
             THEN TRUE
             ELSE IF \E level \in config.notification_levels :
                        current_score >= level
                           /\ last_notification_level < level
                  THEN s = current_score
                  ELSE \A level \in config.notification_levels :
                          last_notification_level < level => s < level
          /\ fatigue_score' = s
          /\ current_score' = s
    /\ mpc' = "notify"
    /\ UNCHANGED <<sharedVars, lock, last_notification_level, running,
                   listening, last_save_time, snapshot, stats_file, alerts,
                   fired_since_reset, final_saves, ui_view>>

NextEscalation ==
    LoopTest \/ ScoreHeld \/ NotificationCheck \/ ResetCheck \/ NextCycle

SpecEscalation == InitGate /\ [][NextEscalation]_vars

(***************************************************************************)
(* The dashboard (sleepguard_ui): run loads the stats file and displays   *)
(* it, every refresh_interval seconds, beside the daemon.                 *)
(***************************************************************************)

\* load_stats: None when the file does not exist, {"error": ...} when it
\* cannot be parsed, the parsed dict otherwise
load_stats ==
    CASE stats_file.kind = "none" -> [kind |-> "None"]
      [] stats_file.kind = "truncated" -> [kind |-> "error"]
      [] stats_file.kind = "stats" -> stats_file

\* display_dashboard: the screen chosen for what load_stats returned
display_dashboard(stats) ==
    IF stats.kind = "None"
    THEN "not_running"
    ELSE IF stats.kind = "error"
         THEN "error"
         ELSE "dashboard"

\* run: stats = self.load_stats(); self.display_dashboard(stats)
UiRefresh ==
    /\ ui_view' = display_dashboard(load_stats)
    /\ UNCHANGED <<sharedVars, lock, mainVars>>

NextUI == Next \/ UiRefresh

SpecUI == InitEvening /\ [][NextUI]_vars

(***************************************************************************)
(* Properties                                                              *)
(***************************************************************************)

\* C1: calculate_fatigue_score returns an integer in [0,100] for every hour,
\* session length, window count and valid config, so that fatigue_score is
\* in [0,100] in every state.
ScoreInRange ==
    /\ fatigue_score \in 0 .. MaxScore
    /\ mpc = "score" => calculate_fatigue_score \in 0 .. MaxScore

\* the three sub-scores at their caps: the score just computed is 100
ScoreAtMaximum ==
    /\ mpc = "notify"
    /\ fatigue_score = MaxScore
    /\ time_score(CurrentHour, config.bedtime_hour) = MaxTimeScore

\* the levels that the score has reached and that lie above the last one
Crossed(score, last_level, levels) ==
    {level \in levels : score >= level /\ last_level < level}

\* C2: the gate never fires for a level that has fired since the last
\* evaluation that saw a score below 30 (and so reset the last level to 0):
\* each threshold fires once until the score is below 30 again.
NoRefireWithoutReset ==
    [][mpc = "notify" /\ mpc' = "reset"
         => \A i \in DOMAIN alerts' : alerts'[i].level \notin fired_since_reset]_vars

\* the score is at or above a level that has fired, and the gate stays silent
SuppressedRefire ==
    /\ mpc = "reset"
    /\ alerts = <<>>
    /\ last_notification_level > 0
    /\ last_notification_level \in fired_since_reset
    /\ current_score >= last_notification_level

\* C3: a cycle whose score is below 30 ends with the last level 0, whatever
\* it was and whether or not a level fired in the cycle; a cycle whose score
\* is at least 30 never sets a non-zero last level to 0.
ResetExactlyBelow30 ==
    [][/\ (mpc = "reset" /\ mpc' = "save_check" /\ current_score < ResetBelow)
            => last_notification_level' = 0
       /\ (mpc \in {"notify", "reset"} /\ current_score >= ResetBelow
              /\ last_notification_level # 0)
            => last_notification_level' # 0]_vars

\* a level fired in this cycle and the reset check still cleared it
ResetAfterFire ==
    /\ mpc = "save_check"
    /\ alerts # <<>>
    /\ current_score < ResetBelow
    /\ last_notification_level = 0

\* C4: the notification check of a cycle fires at most one alert; it fires
\* iff some configured level L has score >= L and last level < L, and then
\* the last level becomes the smallest such L and send_notification is given
\* the current score.
OneAlertLowestLevel ==
    [][mpc = "notify" /\ mpc' = "reset"
         => LET crossed == Crossed(current_score, last_notification_level,
                                   config.notification_levels)
            IN  /\ Len(alerts') <= 1
                /\ (alerts' # <<>>) <=> (crossed # {})
                /\ crossed # {}
                     => /\ last_notification_level' = Lowest(crossed)
                        /\ alerts'[1].level = Lowest(crossed)
                        /\ alerts'[1].score = current_score
                /\ crossed = {}
                     => last_notification_level' = last_notification_level]_vars

\* two levels were crossed at once and only the lower one fired
LowestOfSeveralFired ==
    /\ mpc = "reset"
    /\ Len(alerts) = 1
    /\ last_notification_level = alerts[1].level
    /\ alerts[1].score > alerts[1].level
    /\ \E level \in config.notification_levels :
          alerts[1].level < level /\ level <= current_score

\* C5: an evaluation whose score is at least 30 never lowers the last level,
\* also when the score is below the level that fired last.
NoDowngradeAbove30 ==
    [][(mpc \in {"notify", "reset"} /\ current_score >= ResetBelow)
         => last_notification_level' >= last_notification_level]_vars

\* the cycle ended with a score of at least 30 below the last level
ScoreFellBelowLastLevel ==
    /\ mpc = "save_check"
    /\ current_score >= ResetBelow
    /\ current_score < last_notification_level

\* the set of elements of a sequence
Range(s) == {s[i] : i \in DOMAIN s}

\* C6 (as claimed): at every evaluation each timestamp in the window is
\* within keystroke_window_seconds of the evaluation time, so that the rate
\* goes back to 0 when typing stops.
WindowFreshAtEvaluation ==
    mpc = "score"
      => \A i \in DOMAIN keystroke_history :
            now - keystroke_history[i] <= config.keystroke_window_seconds

\* C7 (as claimed): on_press at time t leaves t and exactly the timestamps
\* of the window that are not older than t - keystroke_window_seconds.
RecordKeepsNotOlder ==
    [][kpc = "record" /\ kpc' = "idle"
         => keystroke_history' =
               SelectSeq(keystroke_history,
                         LAMBDA t : t >= current_time
                                          - config.keystroke_window_seconds)
                  \o <<current_time>>]_vars

\* C7 (amended): on_press at time t leaves t and exactly the timestamps of
\* the window that are newer than t - keystroke_window_seconds, the rate is
\* their number, and no step puts an evicted event back into the window.
RecordKeepsNewer ==
    [][/\ kpc = "record" /\ kpc' = "idle"
            => /\ keystroke_history' =
                     SelectSeq(keystroke_history,
                               LAMBDA t : t > current_time
                                               - config.keystroke_window_seconds)
                        \o <<current_time>>
               /\ get_keystroke_rate' = Len(keystroke_history')
               /\ Len(history_ids') = Len(keystroke_history')
       /\ \A n \in 1 .. completed :
             n \notin Range(history_ids) => n \notin Range(history_ids')]_vars

\* two calls have returned and the first timestamp has been evicted
EvictedByRecord ==
    /\ kpc = "idle"
    /\ completed = 2
    /\ history_ids = <<2>>
    /\ keystroke_history = <<now>>

\* C8: keystroke_count never decreases and is the number of on_press calls
\* made (those returned, and the one past its increment), and the window
\* ends with the event of the last call returned: no increment and no
\* append is lost, whatever the main thread does in between.
CountMatchesCalls ==
    /\ [](keystroke_count = completed + (IF kpc = "record" THEN 1 ELSE 0))
    /\ [](completed > 0
            => /\ history_ids # <<>>
               /\ history_ids[Len(history_ids)] = completed)
    /\ [][keystroke_count' >= keystroke_count]_vars

\* a callback is inside on_press while the main thread waits to save
CallbackDuringSave ==
    /\ kpc = "record"
    /\ mpc = "save_lock"
    /\ completed >= 1

\* C9 (as claimed): every change of the window, keystroke_count,
\* fatigue_score and last_notification_level, and the building of a
\* snapshot, happen with the lock held.
AllMutationsUnderLock ==
    [][/\ (keystroke_count' # keystroke_count
             \/ keystroke_history' # keystroke_history) => lock = "listener"
       /\ fatigue_score' # fatigue_score => lock = "main"
       /\ last_notification_level' # last_notification_level => lock = "main"
       /\ (snapshot = NoStats /\ snapshot' # NoStats) => lock = "main"]_vars

\* C9 (amended): every change of the window, keystroke_count and
\* fatigue_score, and the building of a snapshot, happen with the lock held
\* by the thread that makes them; last_notification_level is written
\* without the lock, by the main thread only, and is no field of the
\* snapshot; the fields of a snapshot are those of one state in which no
\* on_press call was between its increment and its append, and the file
\* written is that snapshot.
SnapshotUnderLock ==
    [][/\ (keystroke_count' # keystroke_count
             \/ keystroke_history' # keystroke_history)
            => lock = "listener" /\ kpc \in {"count", "record"}
       /\ fatigue_score' # fatigue_score => lock = "main" /\ mpc = "score"
       /\ last_notification_level' # last_notification_level
            => mpc \in {"notify", "reset"}
       /\ (snapshot = NoStats /\ snapshot' # NoStats)
            => /\ lock = "main"
               /\ kpc \in {"idle", "lock"}
               /\ snapshot'.total_keystrokes = completed
               /\ snapshot'.current_keystroke_rate = Len(history_ids)
               /\ snapshot'.fatigue_score = fatigue_score
       /\ (stats_file' # stats_file /\ stats_file'.kind = "stats")
            => stats_file' = snapshot]_vars

\* a snapshot that counts a keystroke was built while a callback waited
SnapshotWhileCallbackWaits ==
    /\ snapshot # NoStats
    /\ snapshot.total_keystrokes >= 1
    /\ kpc = "lock"

\* the stop signal has been taken
Stopping == mpc \in {"interrupted", "stop_listener"} \/ ~running

\* C10: once the stop signal is taken, at any point of monitor_loop, no
\* evaluation cycle runs any more, the handler calls save_stats once
\* whatever the time since the last save, and the main thread ends.
StopIsGraceful ==
    /\ [][Stopping
            => /\ mpc' \notin {"loop", "score_lock", "score", "notify",
                              "reset", "save_check", "sleep"}
               /\ fatigue_score' = fatigue_score
               /\ last_notification_level' = last_notification_level]_vars
    /\ [](mpc = "done" => final_saves = 1)
    /\ (mpc = "interrupted") ~> (mpc = "done")

\* the daemon has stopped and saved although no save was due
FinalSaveNotDue ==
    /\ mpc = "done"
    /\ final_saves = 1
    /\ ~SaveDue
    /\ stats_file.kind = "stats"
    /\ stats_file.timestamp = now

\* C11 (as claimed): once running is False no keystroke is recorded:
\* keystroke_count and the window change no more.
NoKeysAfterStop ==
    [][~running => /\ keystroke_count' = keystroke_count
                   /\ keystroke_history' = keystroke_history]_vars

\* the notification sink failed in this cycle
SinkFailed == \E i \in DOMAIN alerts : alerts[i].sink = "failed"

\* the file holds the snapshot taken at the present time
FileFresh == stats_file.kind = "stats" /\ stats_file.timestamp = now

\* save_stats of this cycle is over and has written no snapshot
SaveFailed == mpc = "save_return" /\ running /\ ~FileFresh

\* C12: a failure of the sink, of the metrics or of the write in a cycle
\* does not end monitor_loop: the main thread ends only after the stop
\* signal, and after a failed cycle a new cycle begins, unless the stop
\* signal comes first (or the clock of the model is at its bound).
LoopSurvivesFailure ==
    /\ [](mpc = "done" => ~running)
    /\ (SinkFailed \/ SaveFailed)
          ~> (mpc = "score_lock" \/ Stopping \/ (mpc = "sleep" /\ ~ENABLED Wake))

\* the sink and the save have both failed in this cycle and the loop sleeps
FailedCycleSleeps ==
    /\ mpc = "sleep"
    /\ running
    /\ SinkFailed
    /\ last_save_time = now
    /\ ~FileFresh
    /\ ENABLED Wake


\* the loop has attempted a periodic save, and the file does not hold the
\* snapshot of the last attempt
LastSaveFailed ==
    /\ last_save_time > session_start
    /\ ~(stats_file.kind = "stats" /\ stats_file.timestamp = last_save_time)

\* C13 (as claimed): after a cycle whose save failed, the save gate of the
\* next cycle is open again.
FailedSaveRetriedNextTick ==
    (mpc = "save_check" /\ running /\ LastSaveFailed) => SaveDue


\* C14 (as claimed): whatever the sampling of the system metrics does, the
\* construction of the snapshot in save_stats hands a snapshot to the write
\* of the same save (only the stop signal can come between).
MetricsFailureStillWrites ==
    [][(mpc = "save_build" /\ mpc' \notin {"save_build", "interrupted"})
          => (mpc' = "save_write" /\ snapshot'.kind = "stats")]_vars


\* the file holds a snapshot of a daemon that has stopped
StaleFile == stats_file.kind = "stats" /\ mpc = "done"

\* C15 (as claimed): a refresh of the dashboard that finds the stats file
\* missing, or left behind by a daemon that has stopped, shows the
\* daemon-not-running screen.
MissingOrStaleShowsNotRunning ==
    [][(ui_view' # ui_view /\ (stats_file.kind = "none" \/ StaleFile))
          => ui_view' = "not_running"]_vars


\* scenario A: default config, hour 23, session started 3 hours ago, empty
\* window, no alert level fired yet, and one evaluation has run to its end
ScenarioA ==
    /\ config = DefaultConfig
    /\ CurrentHour = 23
    /\ now - session_start = 3 * SecondsPerHour
    /\ keystroke_history = <<>>
    /\ mpc = "save_check"

\* C16 (as claimed): scenario A computes 7 + 30 + 25 = 62, fires the
\* high-fatigue notification and leaves last_notification_level = 60.
ScenarioAScores62 ==
    ScenarioA => /\ fatigue_score = 62
                 /\ Len(alerts) = 1
                 /\ alerts[1].tier = "high"
                 /\ last_notification_level = 60

\* C16 (amended): scenario A computes 0 + 30 + 25 = 55 (hour 23 is zero
\* hours past a 23:00 bedtime), fires one notification, the warning one, for
\* level 30, the lowest level crossed, and leaves
\* last_notification_level = 30.
ScenarioAScores55 ==
    ScenarioA => /\ fatigue_score = 55
                 /\ Len(alerts) = 1
                 /\ alerts[1].level = 30
                 /\ alerts[1].score = 55
                 /\ alerts[1].tier = "warning"
                 /\ last_notification_level = 30

ScenarioAWarned == ScenarioA /\ last_notification_level = 30


\* the evaluation has run with a session inside the grace hour and a window
\* of 90 or more keys, so that fatigue_score is the time score alone
TimeScoreAlone ==
    /\ mpc = "notify"
    /\ now - session_start <= 3600
    /\ Len(keystroke_history) >= 90

\* C17: for every hour and every bedtime_hour in 0..23 the time score is in
\* [0,30], and it is 0 for every hour h with 6 <= h < bedtime_hour.
TimeScoreBand ==
    LET t == time_score(CurrentHour, config.bedtime_hour)
        day == 6 <= CurrentHour /\ CurrentHour < config.bedtime_hour
    IN  /\ t \in 0 .. 30
        /\ day => t = 0
        /\ TimeScoreAlone => /\ fatigue_score = t
                             /\ fatigue_score \in 0 .. 30
                             /\ day => fatigue_score = 0

DaytimeScoredZero ==
    /\ TimeScoreAlone
    /\ 6 <= CurrentHour
    /\ CurrentHour < config.bedtime_hour
    /\ fatigue_score = 0


\* hours past bedtime of an hour of the late-night band
HoursPastBedtime(h, b) == IF h >= b THEN h - b ELSE (24 - b) + h

\* the time score of the present hour is not above that of any hour of the
\* band that is as many or more hours past bedtime
TimeScoreMonotone ==
    LET b == config.bedtime_hour
        h1 == CurrentHour
    IN  (h1 >= b \/ h1 < 6) =>
           \A h2 \in Hours :
              ((h2 >= b \/ h2 < 6)
                  /\ HoursPastBedtime(h1, b) <= HoursPastBedtime(h2, b))
                 => time_score(h1, b) <= time_score(h2, b)

\* the time score the evaluation gave at hour h with bedtime_hour 23
ScoredAt(h, t) ==
    (TimeScoreAlone /\ config.bedtime_hour = 23 /\ CurrentHour = h)
       => (fatigue_score = t /\ time_score(h, 23) = t)

\* C18 (as claimed): the time score is non-decreasing in the hours past
\* bedtime, and with bedtime_hour 23 hour 23 gives 7, hour 0 gives 14 and
\* hour 4 gives 30.
TimeScoreValuesFromSeven ==
    /\ TimeScoreMonotone
    /\ ScoredAt(23, 7)
    /\ ScoredAt(0, 14)
    /\ ScoredAt(4, 30)

\* C18 (amended): the time score is non-decreasing in the hours past
\* bedtime, and with bedtime_hour 23 hour 23 gives 0, hour 0 gives 7 and
\* hour 4 gives 30 (clamped from 35).
TimeScoreValuesFromZero ==
    /\ TimeScoreMonotone
    /\ ScoredAt(23, 0)
    /\ ScoredAt(0, 7)
    /\ ScoredAt(4, 30)
    /\ HoursPastBedtime(4, 23) * PointsPerHour = 35

ClampedAtFour ==
    /\ TimeScoreAlone
    /\ config.bedtime_hour = 23
    /\ CurrentHour = 4
    /\ fatigue_score = 30


\* the evaluation has run in daytime with a session inside the grace hour,
\* so that fatigue_score is the rate score alone
RateScoreAlone ==
    /\ mpc = "notify"
    /\ 6 <= CurrentHour
    /\ CurrentHour < config.bedtime_hour
    /\ now - session_start <= 3600

\* the rate score claimed for a window of r keys
RateTier(r) ==
    CASE r = 0 -> 25
      [] 1 <= r /\ r < 30 -> 30
      [] 30 <= r /\ r < 60 -> 20
      [] 60 <= r /\ r < 90 -> 10
      [] r >= 90 -> 0

\* C19: the rate score of a window of r keys is 25 for r = 0, 30 for
\* 1 <= r < 30, 20 for 30 <= r < 60, 10 for 60 <= r < 90 and 0 for r >= 90.
RateScoreTiers ==
    LET r == Len(keystroke_history)
    IN  /\ keystroke_rate_score(r) = RateTier(r)
        /\ RateScoreAlone => fatigue_score = RateTier(r)

ThirtyKeysScoredTwenty ==
    /\ RateScoreAlone
    /\ Len(keystroke_history) = 30
    /\ fatigue_score = 20


\* the message claimed for a score s
MessageFor(s) ==
    CASE s >= 90 -> "critical"
      [] 60 <= s /\ s < 90 -> "high"
      [] 30 <= s /\ s < 60 -> "warning"
      [] s < 30 -> "none"

\* C20: the notification of a cycle is chosen by the score of the cycle and
\* not by the level that fired: critical from 90, high fatigue from 60,
\* warning from 30, and below 30 the sink is not called at all, whatever
\* level fired.
MessageByScore ==
    \A i \in DOMAIN alerts :
       /\ alerts[i].score = current_score
       /\ alerts[i].tier = MessageFor(current_score)
       /\ alerts[i].sink = "not_called" <=> current_score < 30

CriticalAtLowestLevel ==
    \E i \in DOMAIN alerts :
       /\ alerts[i].level = 30
       /\ alerts[i].tier = "critical"
       /\ alerts[i].sink = "sent"


\* the sink failed for the alert of level L of this cycle
SinkFailedFor(L) ==
    \E i \in DOMAIN alerts : alerts[i].level = L /\ alerts[i].sink = "failed"

\* C21: a failure of the sink while the alert for level L fires leaves
\* last_notification_level at L as a success does, the reset check and the
\* save step of the cycle follow, last_notification_level stays L up to the
\* notification check of the next cycle, and no notification check fires a
\* level that is not above last_notification_level, so that L is not fired
\* again.
SinkFailureCommitsLevel ==
    [][/\ (mpc = "notify" /\ mpc' # "notify" /\ mpc' # "interrupted")
            => /\ mpc' = "reset"
               /\ \A i \in DOMAIN alerts' :
                     /\ alerts'[i].level > last_notification_level
                     /\ last_notification_level' = alerts'[i].level
       /\ \A L \in config.notification_levels :
             /\ (SinkFailedFor(L) /\ mpc = "reset"
                    /\ mpc' # "reset" /\ mpc' # "interrupted")
                  => /\ mpc' = "save_check"
                     /\ last_notification_level' = L
             /\ (SinkFailedFor(L) /\ mpc = "save_check"
                    /\ mpc' # "save_check" /\ mpc' # "interrupted")
                  => /\ mpc' \in {"save_lock", "sleep"}
                     /\ mpc' = "save_lock" <=> SaveDue
             /\ (last_notification_level = L /\ mpc \notin {"notify", "reset"})
                  => last_notification_level' = L]_vars

\* the sink has failed for level L, L is recorded all the same and the save
\* step of the cycle has been reached
FailedAlertRecorded ==
    \E L \in config.notification_levels :
       /\ SinkFailedFor(L)
       /\ last_notification_level = L
       /\ running
       /\ mpc = "save_lock"


\* at least save_interval_seconds have passed since last_save_time
IntervalElapsed == now - last_save_time >= config.save_interval_seconds

\* C22: a cycle attempts the periodic save exactly when at least
\* save_interval_seconds have passed since last_save_time, and
\* last_save_time then becomes the present time; two consecutive periodic
\* snapshots are at least save_interval_seconds apart; only the save of the
\* shutdown is entered with the gate closed.
SaveGateKept ==
    [][/\ (mpc = "save_check" /\ mpc' # "save_check" /\ mpc' # "interrupted")
            => /\ mpc' = "save_lock" <=> IntervalElapsed
               /\ mpc' = "sleep" <=> ~IntervalElapsed
       /\ (mpc # "save_lock" /\ mpc' = "save_lock" /\ ~IntervalElapsed)
            => (mpc = "stop_listener" /\ ~running)
       /\ (last_save_time' # last_save_time /\ mpc # "enter")
            => /\ mpc = "save_return"
               /\ running
               /\ IntervalElapsed
               /\ last_save_time' = now
       /\ (mpc = "save_return" /\ running /\ mpc' = "sleep")
            => last_save_time' = now
       /\ (running /\ stats_file' # stats_file /\ stats_file'.kind = "stats")
            => /\ IntervalElapsed
               /\ stats_file.kind = "stats"
                    => stats_file'.timestamp - stats_file.timestamp
                          >= config.save_interval_seconds]_vars

\* a second periodic snapshot has been written
SecondPeriodicSave ==
    /\ mpc = "save_return"
    /\ running
    /\ last_save_time > session_start
    /\ stats_file.kind = "stats"
    /\ stats_file.timestamp = now
    /\ now > last_save_time


\* a thread about to acquire the lock does not hold it, and the holder of the
\* lock is inside its with block
NoReentry ==
    /\ mpc \in {"score_lock", "save_lock"} => lock # "main"
    /\ kpc = "lock" => lock # "listener"
    /\ lock = "main" => mpc \in {"score", "save_build"}
    /\ lock = "listener" => kpc \in {"count", "record"}

\* C23: the two threads never deadlock on the lock: no thread acquires the
\* lock while it holds it, every acquisition is followed by a release, and
\* a thread that waits for the lock gets it (the main thread unless the stop
\* signal takes it out of the wait).
LockNeverDeadlocks ==
    /\ []NoReentry
    /\ (lock # "free") ~> (lock = "free")
    /\ (kpc = "lock") ~> (lock = "listener")
    /\ (mpc \in {"score_lock", "save_lock"})
          ~> (lock = "main" \/ mpc = "interrupted")

\* the save of the shutdown waits for a callback that holds the lock
FinalSaveWaitsForCallback ==
    /\ mpc = "save_lock"
    /\ ~running
    /\ lock = "listener"


\* the configured levels that a score of s has reached
LevelsUpTo(s) == {level \in config.notification_levels : level <= s}

\* C24: from last level 0, under a score that stays at s >= 30, every cycle
\* fires exactly one alert, for the levels up to s in ascending order with
\* none left out, until the last level is the largest level up to s; from
\* then on no alert fires while the score stays at or above 30 and below
\* the next level.
EscalationByOneLevel ==
    [][mpc = "notify" /\ mpc' = "reset"
         => LET s == current_score
                last == last_notification_level
                left == {level \in LevelsUpTo(s) : level > last}
            IN  /\ s >= 30
                /\ fired_since_reset
                      = {level \in config.notification_levels : level <= last}
                /\ left # {}
                     => /\ Len(alerts') = 1
                        /\ alerts'[1].level \in left
                        /\ \A level \in left : alerts'[1].level <= level
                        /\ alerts'[1].sink # "not_called"
                        /\ last_notification_level' = alerts'[1].level
                /\ left = {}
                     => /\ alerts' = <<>>
                        /\ last_notification_level' = last]_vars

\* the third level has fired in the third cycle of a score that stays, and
\* the gate has been silent since
EscalationDone ==
    /\ mpc = "reset"
    /\ alerts = <<>>
    /\ Cardinality(fired_since_reset) = 3
    /\ fired_since_reset = LevelsUpTo(current_score)

====
